---- MODULE Spec2Model ----
(***************************************************************************)
(* The request engine of the DataHorders CDN SDK (HttpClient in            *)
(* src/src/index.ts), its error type DataHordersCDNError, and the ACME     *)
(* polling helper AcmeCertificatesApi.waitForActive, as a state machine.   *)
(*                                                                         *)
(* An engine call is an async function: it runs without interruption up to *)
(* an await, and resumes when the awaited promise settles.  Every action   *)
(* below is one such uninterrupted run.                                    *)
(***************************************************************************)
EXTENDS Integers, Sequences, FiniteSets, TLC

VARIABLES
    client,      \* the HttpClient's fields: baseUrl, apiKey, timeout, customHeaders
    pc,          \* per call: where the async function request() is suspended
    req,         \* per call: the arguments and what was handed to fetch
    timerArmed,  \* per call: setTimeout(...) pending, not yet cleared or fired
    aborted,     \* per call: controller.signal.aborted
    resp,        \* per call: the Response fetch resolved to
    outcome,     \* per call: how the promise returned by request() settled
    sends,       \* per call: number of fetch() calls made by this invocation
    jsonTried,   \* per call: response.json() was called by this invocation
    fired,       \* per call: this invocation's own timer callback has run
    caught,      \* per call: the value the catch block of request() received
    wfa          \* the locals of waitForActive, its progress and its result

vars ==
    <<client, pc, req, timerArmed, aborted, resp, outcome, sends, jsonTried, fired, caught,
      wfa>>

----------------------------------------------------------------------------
(* JavaScript values, as far as the engine inspects them.                  *)

Undef == [t |-> "undefined"]
Null == [t |-> "null"]
Num(n) == [t |-> "number", n |-> n]
Str(s) == [t |-> "string", s |-> s]
Bool(b) == [t |-> "boolean", b |-> b]
\* An object, known by what JSON.stringify does with it.
Obj(id) == [t |-> "object", id |-> id]

\* ToBoolean, as used by `if (options.body)`, `!data.success`, `errorText || ...`.
Truthy(v) ==
    CASE v.t = "undefined" -> FALSE
      [] v.t = "null" -> FALSE
      [] v.t = "number" -> v.n # 0
      [] v.t = "string" -> v.s # ""
      [] v.t = "boolean" -> v.b
      [] OTHER -> TRUE

Digits == "0123456789"

RECURSIVE NatToString(_)
NatToString(n) ==
    IF n < 10 THEN SubSeq(Digits, n + 1, n + 1)
    ELSE NatToString(n \div 10) \o SubSeq(Digits, (n % 10) + 1, (n % 10) + 1)

\* String(value) of src/src/index.ts:150.
String(v) ==
    CASE v.t = "undefined" -> "undefined"
      [] v.t = "null" -> "null"
      [] v.t = "number" -> IF v.n < 0 THEN "-" \o NatToString(-v.n) ELSE NatToString(v.n)
      [] v.t = "string" -> v.s
      [] v.t = "boolean" -> IF v.b THEN "true" ELSE "false"
      [] OTHER -> "[object Object]"

----------------------------------------------------------------------------
(* Errors.                                                                 *)

\* new DataHordersCDNError(message, code, status, details): the details field
\* exists only when the argument is not undefined.
DataHordersCDNError(message, code, status, details) ==
    IF details # Undef
    THEN [class |-> "DataHordersCDNError", name |-> "DataHordersCDNError", isError |-> TRUE,
          message |-> message, code |-> code, status |-> status, details |-> details]
    ELSE [class |-> "DataHordersCDNError", name |-> "DataHordersCDNError", isError |-> TRUE,
          message |-> message, code |-> code, status |-> status]

\* Values other code throws: a TypeError, a SyntaxError, the DOMException of an
\* aborted fetch, and a thrown value that is no Error at all.
TypeError(message) ==
    [class |-> "TypeError", name |-> "TypeError", isError |-> TRUE, message |-> message]
SyntaxError(message) ==
    [class |-> "SyntaxError", name |-> "SyntaxError", isError |-> TRUE, message |-> message]
AbortError ==
    [class |-> "DOMException", name |-> "AbortError", isError |-> TRUE,
     message |-> "This operation was aborted"]
ThrownValue(id) ==
    [class |-> "value", name |-> "", isError |-> FALSE, message |-> id]

IsUniform(e) == e.class = "DataHordersCDNError"

----------------------------------------------------------------------------
(* Construction.                                                           *)

DEFAULT_BASE_URL == "https://dashboard.datahorders.org/api/user/v1"

DEFAULT_TIMEOUT == 30000

\* String.prototype.replace(/\/$/, ''): one trailing slash is removed.
StripTrailingSlash(s) ==
    IF Len(s) > 0 /\ SubSeq(s, Len(s), Len(s)) = "/" THEN SubSeq(s, 1, Len(s) - 1) ELSE s

\* constructor(config): an absent option is a field the config record lacks.
HttpClient(config) ==
    [baseUrl |-> StripTrailingSlash(
         IF "baseUrl" \in DOMAIN config THEN config.baseUrl ELSE DEFAULT_BASE_URL),
     apiKey |-> config.apiKey,
     timeout |-> IF "timeout" \in DOMAIN config THEN config.timeout ELSE DEFAULT_TIMEOUT,
     customHeaders |-> IF "headers" \in DOMAIN config THEN config.headers ELSE <<>>]

----------------------------------------------------------------------------
(* URL construction.                                                       *)

StartsWith(s, prefix) ==
    Len(s) >= Len(prefix) /\ SubSeq(s, 1, Len(prefix)) = prefix

\* The character ch occurs in s.
Contains(s, ch) == \E i \in 1 .. Len(s) : SubSeq(s, i, i) = ch

SchemeOf(s) ==
    IF StartsWith(s, "https://") THEN "https://"
    ELSE IF StartsWith(s, "http://") THEN "http://"
    ELSE ""

\* new URL(text): throws TypeError unless text is an absolute URL with a host;
\* a URL with no path gets the path "/".
NewURL(text) ==
    LET scheme == SchemeOf(text)
        rest == SubSeq(text, Len(scheme) + 1, Len(text))
    IN  IF scheme = "" \/ Len(rest) = 0 \/ StartsWith(rest, "/")
        THEN [ok |-> FALSE, error |-> TypeError("Invalid URL")]
        ELSE [ok |-> TRUE,
              url |-> [href |-> IF Contains(rest, "/") THEN text ELSE text \o "/",
                       search |-> ""]]

FormSafe == "abcdefghijklmnopqrstuvwxyzABCDEFGHIJKLMNOPQRSTUVWXYZ0123456789*-._"

\* One character under the application/x-www-form-urlencoded serializer.
EncodeChar(ch) ==
    CASE ch = " " -> "+"
      [] Contains(FormSafe, ch) -> ch
      [] ch = "&" -> "%26"
      [] ch = "=" -> "%3D"
      [] ch = "+" -> "%2B"
      [] ch = "/" -> "%2F"
      [] ch = "?" -> "%3F"
      [] ch = "#" -> "%23"
      [] OTHER -> "%25"

RECURSIVE FormEncodeFrom(_, _)
FormEncodeFrom(s, i) ==
    IF i > Len(s) THEN ""
    ELSE EncodeChar(SubSeq(s, i, i)) \o FormEncodeFrom(s, i + 1)

\* A string under the application/x-www-form-urlencoded serializer.
FormEncode(s) == FormEncodeFrom(s, 1)

\* url.searchParams.append(key, value): the pair is added after those present.
SearchParamsAppend(url, key, value) ==
    [url EXCEPT !.search =
        (IF url.search = "" THEN "" ELSE url.search \o "&")
            \o FormEncode(key) \o "=" \o FormEncode(value)]

\* AppendParams as it would be if line 149 tested `if (value)`.
RECURSIVE AppendParamsTruthy(_, _)
AppendParamsTruthy(url, entries) ==
    IF entries = <<>> THEN url
    ELSE LET e == Head(entries)
         IN  AppendParamsTruthy(
                 IF Truthy(e.value)
                 THEN SearchParamsAppend(url, e.key, String(e.value))
                 ELSE url,
                 Tail(entries))

\* The loop over Object.entries(options.params): entries is the sequence of
\* [key, value] pairs in the order Object.entries yields them.
RECURSIVE AppendParams(_, _)
AppendParams(url, entries) ==
    IF entries = <<>> THEN url
    ELSE LET e == Head(entries)
         IN  AppendParams(
                 IF e.value # Undef
                 THEN SearchParamsAppend(url, e.key, String(e.value))
                 ELSE url,
                 Tail(entries))

\* url.toString()
UrlToString(url) ==
    url.href \o (IF url.search = "" THEN "" ELSE "?" \o url.search)

----------------------------------------------------------------------------
(* Headers and body.                                                       *)

\* { 'X-API-Key': this.apiKey, ...this.customHeaders }: in an object literal
\* a later property of the same name replaces an earlier one.
BaseHeaders(c) ==
    c.customHeaders @@ ("X-API-Key" :> c.apiKey)

\* if (options.body) headers['Content-Type'] = 'application/json'
WithContentType(headers, body) ==
    IF Truthy(body)
    THEN ("Content-Type" :> "application/json") @@ headers
    ELSE headers

\* JSON.stringify(value) for the bodies of the model: the text, or what it throws.
JsonStringify(v) ==
    CASE v.t = "object" /\ v.id = "circular" ->
             [ok |-> FALSE, error |-> TypeError("Converting circular structure to JSON")]
      [] v.t = "object" /\ v.id = "throwing" ->
             [ok |-> FALSE, error |-> ThrownValue("toJSON threw")]
      [] v.t = "object" -> [ok |-> TRUE, text |-> "{\"id\":\"" \o v.id \o "\"}"]
      [] v.t = "string" -> [ok |-> TRUE, text |-> "\"" \o v.s \o "\""]
      [] OTHER -> [ok |-> TRUE, text |-> String(v)]

----------------------------------------------------------------------------
(* Responses.                                                              *)

\* response.ok
ResponseOk(status) == status >= 200 /\ status <= 299

\* A decoded error object {code, message, details?}.
ErrorObject(code, message, details) ==
    [t |-> "object", code |-> code, message |-> message, details |-> details]

\* A decoded JSON object read as an envelope: an absent member reads as undefined.
Envelope(success, error, data) ==
    [t |-> "object", success |-> success, error |-> error, data |-> data]

Parsed(v) == [ok |-> TRUE, value |-> v]
Unparsable == [ok |-> FALSE, error |-> SyntaxError("Unexpected token in JSON")]

\* The bodies a server sends in the model: the text on the wire and what
\* JSON.parse makes of that text.
Bodies ==
    { [text |-> "", json |-> Unparsable],
      [text |-> "Bad Gateway", json |-> Unparsable],
      [text |-> "null", json |-> Parsed(Null)],
      [text |-> "{}", json |-> Parsed(Envelope(Undef, Undef, Undef))],
      [text |-> "{\"success\":true,\"data\":\"d1\"}",
       json |-> Parsed(Envelope(Bool(TRUE), Undef, Str("d1")))],
      [text |-> "{\"success\":true}",
       json |-> Parsed(Envelope(Bool(TRUE), Undef, Undef))],
      [text |-> "{\"success\":true,\"error\":\"boom\"}",
       json |-> Parsed(Envelope(Bool(TRUE), Str("boom"), Undef))],
      [text |-> "{\"success\":false}",
       json |-> Parsed(Envelope(Bool(FALSE), Undef, Undef))],
      [text |-> "{\"success\":false,\"error\":null}",
       json |-> Parsed(Envelope(Bool(FALSE), Null, Undef))],
      [text |-> "{\"success\":false,\"error\":\"boom\"}",
       json |-> Parsed(Envelope(Bool(FALSE), Str("boom"), Undef))],
      [text |-> "{\"success\":false,\"error\":\"\"}",
       json |-> Parsed(Envelope(Bool(FALSE), Str(""), Undef))],
      [text |-> "{\"success\":false,\"error\":{\"code\":\"DOMAIN_EXISTS\",\"message\":\"Domain already registered\"}}",
       json |-> Parsed(Envelope(Bool(FALSE),
                   ErrorObject("DOMAIN_EXISTS", "Domain already registered", Undef), Undef))],
      [text |-> "{\"success\":false,\"error\":{\"code\":\"VALIDATION_ERROR\",\"message\":\"Invalid\",\"details\":{\"field\":\"domain\"}}}",
       json |-> Parsed(Envelope(Bool(FALSE),
                   ErrorObject("VALIDATION_ERROR", "Invalid", Obj("field-domain")), Undef))] }

\* HandleEnvelope as it would be if line 197 tested only `!data.success`.
HandleEnvelopeIgnoringStatus(status, data) ==
    IF data.t = "null"
    THEN [threw |-> TRUE,
          error |-> TypeError("Cannot read properties of null (reading 'success')")]
    ELSE IF ~Truthy(data.success)
    THEN LET error == IF data.error.t = "string"
                      THEN ErrorObject("API_ERROR", data.error.s, Undef)
                      ELSE data.error
         IN  IF error.t \in {"undefined", "null"}
             THEN [threw |-> TRUE,
                   error |-> TypeError("Cannot read properties of " \o error.t
                                           \o " (reading 'message')")]
             ELSE [threw |-> TRUE,
                   error |-> DataHordersCDNError(error.message, error.code, status,
                                                 error.details)]
    ELSE [threw |-> FALSE, value |-> data]

\* HandleEnvelope as it would be if line 197 tested only `!response.ok`.
HandleEnvelopeIgnoringSuccess(status, data) ==
    IF ~ResponseOk(status)
    THEN IF data.t = "null"
         THEN [threw |-> TRUE,
               error |-> TypeError("Cannot read properties of null (reading 'error')")]
         ELSE LET error == IF data.error.t = "string"
                           THEN ErrorObject("API_ERROR", data.error.s, Undef)
                           ELSE data.error
              IN  IF error.t \in {"undefined", "null"}
                  THEN [threw |-> TRUE,
                        error |-> TypeError("Cannot read properties of " \o error.t
                                                \o " (reading 'message')")]
                  ELSE [threw |-> TRUE,
                        error |-> DataHordersCDNError(error.message, error.code, status,
                                                      error.details)]
    ELSE [threw |-> FALSE, value |-> data]

\* Lines 197-211: the decoded body of a JSON response, by status.  Reading a
\* property of null or undefined throws a TypeError.
HandleEnvelope(status, data) ==
    IF data.t = "null"
    THEN [threw |-> TRUE,
          error |-> TypeError(IF ResponseOk(status)
                              THEN "Cannot read properties of null (reading 'success')"
                              ELSE "Cannot read properties of null (reading 'error')")]
    ELSE IF ~ResponseOk(status) \/ ~Truthy(data.success)
    THEN LET error == IF data.error.t = "string"
                      THEN ErrorObject("API_ERROR", data.error.s, Undef)
                      ELSE data.error
         IN  IF error.t \in {"undefined", "null"}
             THEN [threw |-> TRUE,
                   error |-> TypeError("Cannot read properties of " \o error.t
                                           \o " (reading 'message')")]
             ELSE [threw |-> TRUE,
                   error |-> DataHordersCDNError(error.message, error.code, status,
                                                 error.details)]
    ELSE [threw |-> FALSE, value |-> data]

\* CatchHandler as it would be without the `instanceof DataHordersCDNError`
\* test of lines 215-217: every Error is wrapped again.
CatchHandlerRewrapping(error) ==
    IF error.isError
    THEN IF error.name = "AbortError"
         THEN DataHordersCDNError("Request timeout", "TIMEOUT", 0, Undef)
         ELSE DataHordersCDNError(error.message, "NETWORK_ERROR", 0, Undef)
    ELSE DataHordersCDNError("Unknown error occurred", "UNKNOWN_ERROR", 0, Undef)

\* Lines 212-239: what the catch block throws for the value it caught.
CatchHandler(error) ==
    IF IsUniform(error) THEN error
    ELSE IF error.isError
    THEN IF error.name = "AbortError"
         THEN DataHordersCDNError("Request timeout", "TIMEOUT", 0, Undef)
         ELSE DataHordersCDNError(error.message, "NETWORK_ERROR", 0, Undef)
    ELSE DataHordersCDNError("Unknown error occurred", "UNKNOWN_ERROR", 0, Undef)

Returned(v) == [kind |-> "returned", value |-> v]
Threw(e) == [kind |-> "threw", error |-> e]
Pending == [kind |-> "pending"]

\* What a failed read of the response body throws (the connection broke).
BodyReadFailure == TypeError("terminated")

\* Lines 195-211 after `await response.json()` settles: what the try block
\* returns or throws (readOk: the body arrived whole).
TryJson(status, body, readOk) ==
    IF ~readOk THEN [threw |-> TRUE, error |-> BodyReadFailure]
    ELSE IF ~body.json.ok THEN [threw |-> TRUE, error |-> body.json.error]
    ELSE HandleEnvelope(status, body.json.value)

\* TryText as it would be without the `|| 'Request failed'` of line 187.
TryTextNoFallback(status, body, readOk) ==
    IF ~readOk THEN [threw |-> TRUE, error |-> BodyReadFailure]
    ELSE [threw |-> TRUE,
          error |-> DataHordersCDNError(body.text, "REQUEST_FAILED", status, Undef)]

\* Lines 185-190 after `await response.text()` settles: what the try block throws.
TryText(status, body, readOk) ==
    IF ~readOk THEN [threw |-> TRUE, error |-> BodyReadFailure]
    ELSE [threw |-> TRUE,
          error |-> DataHordersCDNError(
                        IF Truthy(Str(body.text)) THEN body.text ELSE "Request failed",
                        "REQUEST_FAILED", status, Undef)]

\* Line 192: `return response.blob()` hands the promise back without awaiting
\* it, so the try block is left before the promise settles and its rejection
\* settles the call without passing through the catch block.
AfterBlob(status, body, readOk) ==
    IF readOk THEN Returned([t |-> "blob", bytes |-> body.text])
    ELSE Threw(BodyReadFailure)

----------------------------------------------------------------------------
(* Bounds and the inputs of the model.                                     *)

\* Number of calls that may be in flight on one engine at once.
NumCalls == 2

\* Largest number of entries of a params object.
MaxParams == 2

Calls == 1 .. NumCalls

BaseUrlOptions ==
    { <<>>, [baseUrl |-> "https://api.example/v1"], [baseUrl |-> "https://api.example/v1/"],
      [baseUrl |-> "api.example/v1"] }

HeaderOptions ==
    { <<>>, [headers |-> ("X-Trace" :> "t1")], [headers |-> ("X-API-Key" :> "other-key")],
      [headers |-> ("Content-Type" :> "text/plain")] }

TimeoutOptions == { <<>>, [timeout |-> 5000] }

\* The config objects a client is constructed from.
Configs ==
    { b @@ h @@ t @@ [apiKey |-> "key-1"] :
        b \in BaseUrlOptions, h \in HeaderOptions, t \in TimeoutOptions }

NoParams == [present |-> FALSE]
Params(entries) == [present |-> TRUE, entries |-> entries]
Entry(k, v) == [key |-> k, value |-> v]

BodyValues ==
    { Undef, Null, Num(0), Bool(FALSE), Str(""), Obj("params"), Obj("circular"),
      Obj("throwing") }

\* What DomainsApi.list passes for {verified: true} (lines 324-328).
DomainListParams ==
    Params(<<Entry("page", Undef), Entry("perPage", Undef), Entry("verified", Str("true"))>>)

ParamOptions == { NoParams, DomainListParams }

ParamKeys == {"page", "verified", "q"}
ParamValues == {Undef, Str("true"), Str("a b"), Num(1), Num(0), Bool(TRUE), Bool(FALSE)}

\* Every params object of at most n entries: the keys of an object are distinct.
RECURSIVE EntryLists(_)
EntryLists(n) ==
    IF n = 0 THEN { <<>> }
    ELSE LET shorter == EntryLists(n - 1)
         IN  shorter \cup
             { Append(es, Entry(k, v)) :
                 es \in { x \in shorter : Len(x) = n - 1 },
                 k \in ParamKeys, v \in ParamValues }

DistinctKeys(es) ==
    \A i, j \in 1 .. Len(es) : i # j => es[i].key # es[j].key

AllParams == { Params(es) : es \in { x \in EntryLists(MaxParams) : DistinctKeys(x) } }

Statuses == {200, 299, 300, 409}

TransportFailures == { TypeError("fetch failed"), TypeError("") }

----------------------------------------------------------------------------
(* The engine's operations.                                                *)

NoReq == [op |-> "none", fetched |-> FALSE]
\* waitForActive not called.
WfaIdle ==
    [pc |-> "idle", now |-> 0, startTime |-> 0, pollInterval |-> 0, timeout |-> 0,
     checks |-> 0, delays |-> 0, checkStart |-> 0, lastDone |-> 0,
     observed |-> <<>>, outcome |-> Pending]

NoResp == [status |-> 0, read |-> "none"]
NoCatch == [class |-> "none"]

InitCalls ==
    /\ pc = [c \in Calls |-> "idle"]
    /\ req = [c \in Calls |-> NoReq]
    /\ timerArmed = [c \in Calls |-> FALSE]
    /\ aborted = [c \in Calls |-> FALSE]
    /\ resp = [c \in Calls |-> NoResp]
    /\ outcome = [c \in Calls |-> Pending]
    /\ sends = [c \in Calls |-> 0]
    /\ jsonTried = [c \in Calls |-> FALSE]
    /\ fired = [c \in Calls |-> FALSE]
    /\ caught = [c \in Calls |-> NoCatch]
    /\ wfa = WfaIdle

\* The headers object of a call (lines 155-162).
BuildHeaders(c, options) ==
    WithContentType(BaseHeaders(c), options.body)

\* The URL of a call (lines 144-153).
BuildUrl(c, path, options) ==
    LET u == NewURL(c.baseUrl \o path)
    IN  IF ~u.ok THEN u
        ELSE [ok |-> TRUE,
              url |-> IF options.params.present
                      THEN AppendParams(u.url, options.params.entries)
                      ELSE u.url]

\* The serialized body of a call (lines 174-176): none unless options.body is truthy.
BuildBody(options) ==
    IF Truthy(options.body)
    THEN LET j == JsonStringify(options.body)
         IN  IF j.ok THEN [ok |-> TRUE, hasBody |-> TRUE, text |-> j.text] ELSE j
    ELSE [ok |-> TRUE, hasBody |-> FALSE, text |-> ""]

\* request(method, path, options) from its start to `await fetch(...)`
\* (lines 135-178).  new URL(...) is outside the try block: what it throws
\* settles the call as it is.  JSON.stringify is inside: what it throws goes
\* through the catch block, which clears the timer.
Request(c, op, method, path, options) ==
    LET u == BuildUrl(client, path, options)
        b == BuildBody(options)
        args == [op |-> op, method |-> method, path |-> path, options |-> options]
    IN  /\ pc[c] = "idle"
        /\ IF ~u.ok
           THEN /\ pc' = [pc EXCEPT ![c] = "done"]
                /\ req' = [req EXCEPT ![c] = args @@ [fetched |-> FALSE]]
                /\ outcome' = [outcome EXCEPT ![c] = Threw(u.error)]
                /\ UNCHANGED caught
                /\ timerArmed' = [timerArmed EXCEPT ![c] = FALSE]
                /\ sends' = [sends EXCEPT ![c] = 0]
           ELSE IF ~b.ok
           THEN /\ pc' = [pc EXCEPT ![c] = "done"]
                /\ req' = [req EXCEPT ![c] = args @@ [fetched |-> FALSE]]
                /\ caught' = [caught EXCEPT ![c] = b.error]
                /\ outcome' = [outcome EXCEPT ![c] = Threw(CatchHandler(b.error))]
                /\ timerArmed' = [timerArmed EXCEPT ![c] = FALSE]
                /\ sends' = [sends EXCEPT ![c] = 0]
           ELSE /\ pc' = [pc EXCEPT ![c] = "fetching"]
                /\ req' = [req EXCEPT ![c] =
                       args @@ [fetched |-> TRUE, url |-> UrlToString(u.url),
                                headers |-> BuildHeaders(client, options),
                                hasBody |-> b.hasBody, bodyText |-> b.text]]
                /\ outcome' = [outcome EXCEPT ![c] = Pending]
                /\ UNCHANGED caught
                /\ timerArmed' = [timerArmed EXCEPT ![c] = TRUE]
                /\ sends' = [sends EXCEPT ![c] = 1]
        /\ UNCHANGED <<client, aborted, resp, jsonTried, fired>>

\* The options object each entry point builds (lines 242-311).
JsonOptions(body, params) == [body |-> body, params |-> params, responseType |-> "json"]
BlobOptions == [body |-> Undef, params |-> NoParams, responseType |-> "blob"]

Get(c, path, params) ==
    /\ Request(c, "get", "GET", path, JsonOptions(Undef, params))
    /\ UNCHANGED wfa

Post(c, path, body, params) ==
    /\ Request(c, "post", "POST", path, JsonOptions(body, params))
    /\ UNCHANGED wfa

Put(c, path, body, params) ==
    /\ Request(c, "put", "PUT", path, JsonOptions(body, params))
    /\ UNCHANGED wfa

Patch(c, path, body, params) ==
    /\ Request(c, "patch", "PATCH", path, JsonOptions(body, params))
    /\ UNCHANGED wfa

Delete(c, path, params) ==
    /\ Request(c, "delete", "DELETE", path, JsonOptions(Undef, params))
    /\ UNCHANGED wfa

Download(c, path) ==
    /\ Request(c, "download", "GET", path, BlobOptions)
    /\ UNCHANGED wfa


\* TimerFire as it would be if the callback did not abort the controller.
TimerFireWithoutAbort(c) ==
    /\ timerArmed[c]
    /\ timerArmed' = [timerArmed EXCEPT ![c] = FALSE]
    /\ fired' = [fired EXCEPT ![c] = TRUE]
    /\ UNCHANGED <<wfa, client, pc, req, aborted, resp, outcome, sends, jsonTried, caught>>

\* TimerFire as it would be if the AbortController were a field of the
\* client, shared by the calls in flight, instead of a local of request().
TimerFireSharedController(c) ==
    /\ timerArmed[c]
    /\ timerArmed' = [timerArmed EXCEPT ![c] = FALSE]
    /\ aborted' = [d \in Calls |-> TRUE]
    /\ fired' = [fired EXCEPT ![c] = TRUE]
    /\ UNCHANGED <<wfa, client, pc, req, resp, outcome, sends, jsonTried, caught>>

\* The timer callback of line 165, () => controller.abort(), runs.
TimerFire(c) ==
    /\ timerArmed[c]
    /\ timerArmed' = [timerArmed EXCEPT ![c] = FALSE]
    /\ aborted' = [aborted EXCEPT ![c] = TRUE]
    /\ fired' = [fired EXCEPT ![c] = TRUE]
    /\ UNCHANGED <<wfa, client, pc, req, resp, outcome, sends, jsonTried, caught>>

\* fetch, given an aborted signal, rejects with an AbortError; the catch
\* block clears the timer and throws (lines 212-239).
AbortReject(c) ==
    /\ pc[c] = "fetching"
    /\ aborted[c]
    /\ pc' = [pc EXCEPT ![c] = "done"]
    /\ timerArmed' = [timerArmed EXCEPT ![c] = FALSE]
    /\ caught' = [caught EXCEPT ![c] = AbortError]
    /\ outcome' = [outcome EXCEPT ![c] = Threw(CatchHandler(AbortError))]
    /\ UNCHANGED <<wfa, client, req, aborted, resp, sends, jsonTried, fired>>

\* FetchReject as it would be if the engine sent the request once more after
\* a transport failure before giving up.
FetchRejectRetrying(c, error) ==
    /\ pc[c] = "fetching"
    /\ ~aborted[c]
    /\ IF sends[c] < 2
       THEN /\ sends' = [sends EXCEPT ![c] = @ + 1]
            /\ UNCHANGED <<pc, timerArmed, caught, outcome>>
       ELSE /\ pc' = [pc EXCEPT ![c] = "done"]
            /\ timerArmed' = [timerArmed EXCEPT ![c] = FALSE]
            /\ caught' = [caught EXCEPT ![c] = error]
            /\ outcome' = [outcome EXCEPT ![c] = Threw(CatchHandler(error))]
            /\ UNCHANGED sends
    /\ UNCHANGED <<wfa, client, req, aborted, resp, jsonTried, fired>>

\* fetch rejects for a reason of its own (no connection, DNS failure).
FetchReject(c, error) ==
    /\ pc[c] = "fetching"
    /\ ~aborted[c]
    /\ pc' = [pc EXCEPT ![c] = "done"]
    /\ timerArmed' = [timerArmed EXCEPT ![c] = FALSE]
    /\ caught' = [caught EXCEPT ![c] = error]
    /\ outcome' = [outcome EXCEPT ![c] = Threw(CatchHandler(error))]
    /\ UNCHANGED <<wfa, client, req, aborted, resp, sends, jsonTried, fired>>

\* FetchResolve as it would be without the clearTimeout of line 180.
FetchResolveKeepingTimer(c, status, body) ==
    /\ pc[c] = "fetching"
    /\ ~aborted[c]
    /\ resp' = [resp EXCEPT ![c] = [status |-> status, body |-> body, read |-> "pending"]]
    /\ IF req[c].options.responseType = "blob"
       THEN /\ pc' = [pc EXCEPT ![c] =
                  IF ResponseOk(status) THEN "readBlob" ELSE "readText"]
            /\ UNCHANGED jsonTried
       ELSE /\ pc' = [pc EXCEPT ![c] = "readJson"]
            /\ jsonTried' = [jsonTried EXCEPT ![c] = TRUE]
    /\ UNCHANGED <<wfa, client, req, timerArmed, aborted, outcome, sends, fired, caught>>

\* fetch resolves to a response: line 180 clears the timer, and the call
\* waits for the body in the form its responseType asks for (lines 183-195).
FetchResolve(c, status, body) ==
    /\ pc[c] = "fetching"
    /\ ~aborted[c]
    /\ resp' = [resp EXCEPT ![c] = [status |-> status, body |-> body, read |-> "pending"]]
    /\ timerArmed' = [timerArmed EXCEPT ![c] = FALSE]
    /\ IF req[c].options.responseType = "blob"
       THEN /\ pc' = [pc EXCEPT ![c] =
                  IF ResponseOk(status) THEN "readBlob" ELSE "readText"]
            /\ UNCHANGED jsonTried
       ELSE /\ pc' = [pc EXCEPT ![c] = "readJson"]
            /\ jsonTried' = [jsonTried EXCEPT ![c] = TRUE]
    /\ UNCHANGED <<wfa, client, req, aborted, outcome, sends, fired, caught>>

\* The rest of the try block once the body is read, and the catch block
\* when the try block throws (lines 183-239).
SettleInTry(c, readOk, r) ==
    /\ pc' = [pc EXCEPT ![c] = "done"]
    /\ resp' = [resp EXCEPT ![c].read = IF readOk THEN "ok" ELSE "failed"]
    /\ IF r.threw
       THEN /\ caught' = [caught EXCEPT ![c] = r.error]
            /\ outcome' = [outcome EXCEPT ![c] = Threw(CatchHandler(r.error))]
       ELSE /\ outcome' = [outcome EXCEPT ![c] = Returned(r.value)]
            /\ UNCHANGED caught
    /\ UNCHANGED <<wfa, client, req, timerArmed, aborted, sends, jsonTried, fired>>

\* response.json() settles (readOk: the body arrived whole).
JsonSettle(c, readOk) ==
    /\ pc[c] = "readJson"
    /\ SettleInTry(c, readOk, TryJson(resp[c].status, resp[c].body, readOk))

\* response.text() settles.
TextSettle(c, readOk) ==
    /\ pc[c] = "readText"
    /\ SettleInTry(c, readOk, TryText(resp[c].status, resp[c].body, readOk))

\* The promise of response.blob(), returned at line 192, settles.
BlobSettle(c, readOk) ==
    /\ pc[c] = "readBlob"
    /\ pc' = [pc EXCEPT ![c] = "done"]
    /\ resp' = [resp EXCEPT ![c].read = IF readOk THEN "ok" ELSE "failed"]
    /\ outcome' = [outcome EXCEPT ![c] = AfterBlob(resp[c].status, resp[c].body, readOk)]
    /\ UNCHANGED <<wfa, client, req, timerArmed, aborted, sends, jsonTried, fired, caught>>

\* What the network and the timers do to a call in flight, the responses
\* drawn from the given statuses and bodies.
Transport(c, statuses, bodies) ==
    \/ TimerFire(c)
    \/ AbortReject(c)
    \/ \E e \in TransportFailures : FetchReject(c, e)
    \/ \E st \in statuses, b \in bodies : FetchResolve(c, st, b)
    \/ \E ok \in BOOLEAN : JsonSettle(c, ok)

\* The body of a download's response arrives, or fails to.
BlobTransport(c) ==
    \/ \E ok \in BOOLEAN : TextSettle(c, ok)
    \/ \E ok \in BOOLEAN : BlobSettle(c, ok)

----------------------------------------------------------------------------
(* One client, one call at a time, every entry point and every response.   *)

Init ==
    /\ client \in { HttpClient(cfg) : cfg \in Configs }
    /\ InitCalls

Next ==
    \/ \E ps \in ParamOptions : Get(1, "/domains", ps)
    \/ \E b \in BodyValues, ps \in ParamOptions : Post(1, "/domains", b, ps)
    \/ \E b \in BodyValues, ps \in ParamOptions : Put(1, "/zones/z1", b, ps)
    \/ \E b \in BodyValues, ps \in ParamOptions : Patch(1, "/waf/config", b, ps)
    \/ \E ps \in ParamOptions : Delete(1, "/domains", ps)
    \/ Download(1, "/certificates/c1/download")
    \/ Transport(1, Statuses, Bodies)
    \/ BlobTransport(1)

Spec == Init /\ [][Next]_vars

----------------------------------------------------------------------------
(* One client, NumCalls calls in flight at once.                           *)

ConcBodies ==
    { b \in Bodies :
        b.text \in { "{\"success\":true,\"data\":\"d1\"}",
                     "{\"success\":false,\"error\":\"boom\"}" } }

ConcStatuses == {200, 409}

InitConc ==
    /\ client = HttpClient([apiKey |-> "key-1", baseUrl |-> "https://api.example/v1",
                            headers |-> ("X-Trace" :> "t1")])
    /\ InitCalls

NextConc ==
    \E c \in Calls :
        \/ Get(c, "/domains", NoParams)
        \/ Post(c, "/domains", Obj("params"), NoParams)
        \/ Download(c, "/certificates/c1/download")
        \/ Transport(c, ConcStatuses, ConcBodies)
        \/ BlobTransport(c)

SpecConc == InitConc /\ [][NextConc]_vars

----------------------------------------------------------------------------
(* One client, one GET, every params object of at most MaxParams entries.  *)

UrlParams == AllParams \cup {NoParams, DomainListParams}

NextUrl ==
    \E path \in {"/domains", "/zones/z1"}, ps \in UrlParams : Get(1, path, ps)

InitUrl ==
    /\ client \in { HttpClient(b @@ [apiKey |-> "key-1"]) : b \in BaseUrlOptions }
    /\ InitCalls

SpecUrl == InitUrl /\ [][NextUrl]_vars

----------------------------------------------------------------------------
(* AcmeCertificatesApi.waitForActive, its status checks made through call 1. *)

\* Largest overall deadline and poll interval given to waitForActive, longest
\* time a status check takes, and how late a poll timer may fire, in clock units.
MaxTimeout == 3
MaxInterval == 1
MaxDur == 1
MaxLate == 1

DefaultPollInterval == 10000
DefaultWaitTimeout == 300000

\* Lines 581-582: an option the caller left out gets its default.
WaitOptions(options) ==
    [pollInterval |-> IF "pollInterval" \in DOMAIN options
                      THEN options.pollInterval ELSE DefaultPollInterval,
     timeout |-> IF "timeout" \in DOMAIN options
                 THEN options.timeout ELSE DefaultWaitTimeout]

PollOptions ==
    { [pollInterval |-> i, timeout |-> t] : i \in 0 .. MaxInterval, t \in 0 .. MaxTimeout }
        \cup { [timeout |-> t] : t \in 1 .. MaxTimeout }

\* A decoded AcmeCertificateStatus.
AcmeStatus(status, message) == [t |-> "object", status |-> status, message |-> message]

StatusBody(text, status) ==
    [text |-> text, json |-> Parsed(Envelope(Bool(TRUE), Undef, status))]

PollBodies ==
    { StatusBody("{\"success\":true,\"data\":{\"status\":\"pending\"}}",
                 AcmeStatus("pending", Undef)),
      StatusBody("{\"success\":true,\"data\":{\"status\":\"validating\"}}",
                 AcmeStatus("validating", Undef)),
      StatusBody("{\"success\":true,\"data\":{\"status\":\"active\"}}",
                 AcmeStatus("active", Undef)),
      StatusBody("{\"success\":true,\"data\":{\"status\":\"failed\",\"message\":\"DNS challenge failed\"}}",
                 AcmeStatus("failed", Str("DNS challenge failed"))),
      StatusBody("{\"success\":true,\"data\":{\"status\":\"error\"}}",
                 AcmeStatus("error", Undef)),
      StatusBody("{\"success\":true}", Undef),
      [text |-> "{\"success\":false,\"error\":\"boom\"}",
       json |-> Parsed(Envelope(Bool(FALSE), Str("boom"), Undef))] }

PollStatuses == {200, 404}

engineVars ==
    <<client, pc, req, timerArmed, aborted, resp, outcome, sends, jsonTried, fired, caught>>

\* setTimeout(resolve, pollInterval): the runtime raises a delay below 1 to 1.
TimerDelay(ms) == IF ms < 1 THEN 1 ELSE ms

\* StatusVerdict as it would be if line 592 tested `status.status === 'failed'` only.
StatusVerdictFailedOnly(status) ==
    IF status.status = "active" THEN "return"
    ELSE IF status.status = "failed" THEN "raise"
    ELSE "delay"

\* Lines 588-600: what the loop does with a status.
StatusVerdict(status) ==
    IF status.status = "active" THEN "return"
    ELSE IF status.status \in {"failed", "error"} THEN "raise"
    ELSE "delay"

\* Lines 585-586 and 603-607: the loop test with the locals w, then either
\* getStatus(certificateId), which is client.get('/certificates/acme',
\* {certificateId}) run up to its fetch, or the TIMEOUT error after the loop.
WfaEnterLoop(w) ==
    IF w.now - w.startTime < w.timeout
    THEN /\ Request(1, "get", "GET", "/certificates/acme",
                    JsonOptions(Undef, Params(<<Entry("certificateId", Str("cert-1"))>>)))
         /\ wfa' = [w EXCEPT !.pc = "checking", !.checks = @ + 1, !.checkStart = w.now]
    ELSE /\ wfa' = [w EXCEPT !.pc = "done",
                             !.outcome = Threw(DataHordersCDNError(
                                 "Timeout waiting for certificate to become active",
                                 "TIMEOUT", 0, Undef))]
         /\ UNCHANGED engineVars

\* waitForActive(certificateId, options) from its start (lines 577-586).
WaitForActive(options) ==
    /\ wfa.pc = "idle"
    /\ pc[1] = "idle"
    /\ WfaEnterLoop([pc |-> "loop", now |-> wfa.now, startTime |-> wfa.now,
                     pollInterval |-> WaitOptions(options).pollInterval,
                     timeout |-> WaitOptions(options).timeout,
                     checks |-> 0, delays |-> 0, checkStart |-> wfa.now,
                     lastDone |-> wfa.now, observed |-> <<>>, outcome |-> Pending])

\* The call made by getStatus has settled, d clock units after the loop test
\* (lines 570-571 and 586-600).  What the call threw leaves waitForActive as
\* it is; reading .status of a missing data member throws a TypeError.
WfaStatus(d) ==
    /\ wfa.pc = "checking"
    /\ pc[1] = "done"
    /\ LET w == [wfa EXCEPT !.now = @ + d, !.lastDone = wfa.now + d]
           o == outcome[1]
       IN  IF o.kind = "threw"
           THEN wfa' = [w EXCEPT !.pc = "done", !.outcome = o]
           ELSE LET status == o.value.data
                IN  IF status.t # "object"
                    THEN wfa' = [w EXCEPT !.pc = "done",
                                   !.outcome = Threw(TypeError(
                                       "Cannot read properties of undefined (reading 'status')"))]
                    ELSE LET seen == [w EXCEPT !.observed = Append(@, status.status)]
                         IN  CASE StatusVerdict(status) = "return" ->
                                      wfa' = [seen EXCEPT !.pc = "done",
                                                          !.outcome = Returned(status)]
                               [] StatusVerdict(status) = "raise" ->
                                      wfa' = [seen EXCEPT !.pc = "done",
                                                !.outcome = Threw(DataHordersCDNError(
                                                    IF Truthy(status.message)
                                                    THEN status.message.s
                                                    ELSE "Certificate issuance failed",
                                                    "CERTIFICATE_FAILED", 0, Undef))]
                               [] OTHER -> wfa' = [seen EXCEPT !.pc = "delay"]
    /\ pc' = [pc EXCEPT ![1] = "idle"]
    /\ req' = [req EXCEPT ![1] = NoReq]
    /\ resp' = [resp EXCEPT ![1] = NoResp]
    /\ outcome' = [outcome EXCEPT ![1] = Pending]
    /\ sends' = [sends EXCEPT ![1] = 0]
    /\ jsonTried' = [jsonTried EXCEPT ![1] = FALSE]
    /\ fired' = [fired EXCEPT ![1] = FALSE]
    /\ aborted' = [aborted EXCEPT ![1] = FALSE]
    /\ caught' = [caught EXCEPT ![1] = NoCatch]
    /\ UNCHANGED <<client, timerArmed>>

\* WfaWake as it would be if the loop went round without the delay of line 600.
WfaWakeWithoutDelay(late) ==
    /\ wfa.pc = "delay"
    /\ WfaEnterLoop(wfa)

\* The timer of line 600 fires, late clock units after it was due, and the
\* loop test runs again.
WfaWake(late) ==
    /\ wfa.pc = "delay"
    /\ WfaEnterLoop([wfa EXCEPT !.now = @ + TimerDelay(wfa.pollInterval) + late,
                                !.delays = @ + 1])

InitPoll ==
    /\ client = HttpClient([apiKey |-> "key-1", baseUrl |-> "https://api.example/v1"])
    /\ InitCalls

NextPoll ==
    \/ \E o \in PollOptions : WaitForActive(o)
    \/ \E d \in 0 .. MaxDur : WfaStatus(d)
    \/ \E late \in 0 .. MaxLate : WfaWake(late)
    \/ Transport(1, PollStatuses, PollBodies)

\* The event loop runs whatever is ready, and a request in flight ends: with
\* a response, a failure, or the engine's own timeout.
SpecPoll == InitPoll /\ [][NextPoll]_vars /\ WF_vars(NextPoll)

----------------------------------------------------------------------------
(* Properties of the engine.                                               *)

JsonOps == {"get", "post", "put", "patch", "delete"}

\* The decoded body of the response call c received.
Decoded(c) == resp[c].body.json.value

\* C1: every failure that leaves an engine operation is a DataHordersCDNError,
\* whatever step failed (URL construction, body serialization, the transport
\* call, reading or decoding the body as JSON, text or binary).
C1_EveryFailureIsUniform ==
    \A c \in Calls : outcome[c].kind = "threw" => IsUniform(outcome[c].error)

\* C2: a JSON-path call returns a value only for a 2xx status with a decoded
\* envelope whose success flag is true, and then returns that envelope
\* unchanged; for a non-2xx status it raises and never returns a value.
C2_ReturnsOnly2xxSuccess ==
    \A c \in Calls :
        req[c].op \in JsonOps =>
            /\ outcome[c].kind = "returned" =>
                   /\ ResponseOk(resp[c].status)
                   /\ resp[c].body.json.ok
                   /\ Decoded(c).t = "object"
                   /\ Decoded(c).success = Bool(TRUE)
                   /\ outcome[c].value = Decoded(c)
            /\ (pc[c] = "done" /\ resp[c].read # "none" /\ ~ResponseOk(resp[c].status)) =>
                   outcome[c].kind = "threw"

\* A JSON-path call has returned the envelope of a 2xx response.
C2_Witness ==
    \E c \in Calls :
        /\ req[c].op \in JsonOps
        /\ outcome[c].kind = "returned"
        /\ outcome[c].value.data = Str("d1")

\* The envelope of call c has success: false and an error that is a string or
\* an error object, and the call has finished reading it.
FailureEnvelope(c) ==
    /\ req[c].op \in JsonOps
    /\ pc[c] = "done"
    /\ resp[c].read = "ok"
    /\ resp[c].body.json.ok
    /\ Decoded(c).t = "object"
    /\ Decoded(c).success = Bool(FALSE)
    /\ Decoded(c).error.t \in {"string", "object"}

\* C3: a JSON-path response with success: false, whatever its HTTP status,
\* raises a DataHordersCDNError with the code and message of the envelope's
\* error and its details when present; a string error gives code API_ERROR
\* and that string as the message.
C3_FailureEnvelopeRaisesItsError ==
    \A c \in Calls :
        FailureEnvelope(c) =>
            LET e == Decoded(c).error
                o == outcome[c]
            IN  /\ o.kind = "threw"
                /\ IsUniform(o.error)
                /\ IF e.t = "string"
                   THEN o.error.code = "API_ERROR" /\ o.error.message = e.s
                   ELSE /\ o.error.code = e.code
                        /\ o.error.message = e.message
                        /\ e.details # Undef =>
                               "details" \in DOMAIN o.error /\ o.error.details = e.details

\* A 2xx response carried success: false with a string error, and the call raised.
C3_Witness ==
    \E c \in Calls :
        /\ FailureEnvelope(c)
        /\ ResponseOk(resp[c].status)
        /\ Decoded(c).error = Str("boom")
        /\ outcome[c].kind = "threw"

\* C4: once a call's timeout has elapsed with its request still pending, the
\* request is aborted through the call's signal, and the call settles with
\* TIMEOUT, status 0, "Request timeout": never a value, never another code.
C4_TimeoutAbortsAndRaisesTimeout ==
    \A c \in Calls :
        fired[c] =>
            /\ aborted[c]
            /\ pc[c] \in {"fetching", "done"}
            /\ outcome[c].kind # "returned"
            /\ pc[c] = "done" =>
                   /\ outcome[c].kind = "threw"
                   /\ IsUniform(outcome[c].error)
                   /\ outcome[c].error.code = "TIMEOUT"
                   /\ outcome[c].error.status = 0
                   /\ outcome[c].error.message = "Request timeout"

\* A call whose timer fired has settled.
C4_Witness ==
    \E c \in Calls : fired[c] /\ pc[c] = "done" /\ outcome[c].kind = "threw"

\* C5: what the catch block received is reclassified by one rule: a
\* DataHordersCDNError leaves unchanged; an Error from the transport, before
\* any response and not an abort, leaves as NETWORK_ERROR, status 0, with its
\* message; a thrown value that is no Error leaves as UNKNOWN_ERROR, status 0,
\* "Unknown error occurred".
C5_ReclassifiedByOneRule ==
    \A c \in Calls :
        (pc[c] = "done" /\ caught[c] # NoCatch) =>
            LET e == caught[c]
                o == outcome[c]
            IN  /\ o.kind = "threw"
                /\ IsUniform(o.error)
                /\ IsUniform(e) => o.error = e
                /\ (e.class = "TypeError" /\ req[c].fetched /\ resp[c] = NoResp) =>
                       /\ o.error.code = "NETWORK_ERROR"
                       /\ o.error.status = 0
                       /\ o.error.message = e.message
                       /\ "details" \notin DOMAIN o.error
                /\ ~e.isError =>
                       /\ o.error.code = "UNKNOWN_ERROR"
                       /\ o.error.status = 0
                       /\ o.error.message = "Unknown error occurred"

\* The catch block received an error built from an envelope, with details,
\* and the call has settled.
C5_Witness ==
    \E c \in Calls :
        /\ pc[c] = "done"
        /\ IsUniform(caught[c])
        /\ "details" \in DOMAIN caught[c]
        /\ caught[c].status = 409

\* C6: every request sent carries X-API-Key with the configured credential
\* and every configured default header with its configured value.
C6_CredentialAndDefaultHeadersSent ==
    \A c \in Calls :
        req[c].fetched =>
            /\ "X-API-Key" \in DOMAIN req[c].headers
            /\ req[c].headers["X-API-Key"] = client.apiKey
            /\ \A h \in DOMAIN client.customHeaders :
                   h \in DOMAIN req[c].headers /\ req[c].headers[h] = client.customHeaders[h]

\* C8: the download path never decodes JSON; a non-2xx response whose text was
\* read raises REQUEST_FAILED with the response's status and that text, or
\* "Request failed" when the text is empty; a 2xx response whose payload was
\* read returns the payload.
C8_DownloadNeverDecodesJson ==
    \A c \in Calls :
        req[c].op = "download" =>
            /\ ~jsonTried[c]
            /\ (pc[c] = "done" /\ resp[c].read = "ok") =>
                   IF ResponseOk(resp[c].status)
                   THEN /\ outcome[c].kind = "returned"
                        /\ outcome[c].value = [t |-> "blob", bytes |-> resp[c].body.text]
                   ELSE /\ outcome[c].kind = "threw"
                        /\ IsUniform(outcome[c].error)
                        /\ outcome[c].error.code = "REQUEST_FAILED"
                        /\ outcome[c].error.status = resp[c].status
                        /\ outcome[c].error.message =
                               (IF resp[c].body.text = "" THEN "Request failed"
                                ELSE resp[c].body.text)

\* A download got a non-2xx response with an empty body and raised.
C8_Witness ==
    \E c \in Calls :
        /\ req[c].op = "download"
        /\ pc[c] = "done"
        /\ resp[c].read = "ok"
        /\ resp[c].status = 409
        /\ resp[c].body.text = ""
        /\ outcome[c].kind = "threw"

\* The entries of a params object that have a value.
DefinedEntries(entries) == SelectSeq(entries, LAMBDA e : e.value # Undef)

\* The text a value of ParamValues must have in the query string.
ExpectedText(v) ==
    CASE v = Str("true") -> "true"
      [] v = Str("a b") -> "a+b"
      [] v = Num(1) -> "1"
      [] v = Num(0) -> "0"
      [] v = Bool(TRUE) -> "true"
      [] v = Bool(FALSE) -> "false"

RECURSIVE ExpectedQuery(_)
ExpectedQuery(entries) ==
    IF Len(entries) = 0 THEN ""
    ELSE LET e == entries[Len(entries)]
             front == ExpectedQuery(SubSeq(entries, 1, Len(entries) - 1))
         IN  (IF front = "" THEN "" ELSE front \o "&") \o e.key \o "=" \o ExpectedText(e.value)

EntriesOf(params) == IF params.present THEN params.entries ELSE <<>>

\* C7: the URL sent is the base URL followed by the path and one query
\* parameter per entry whose value is not undefined, in the entries' order,
\* each value stringified; an undefined entry adds nothing, so /domains with
\* only verified=true yields <base>/domains?verified=true.
C7_UrlHasOneParamPerDefinedEntry ==
    \A c \in Calls :
        req[c].fetched =>
            LET q == ExpectedQuery(DefinedEntries(EntriesOf(req[c].options.params)))
            IN  /\ req[c].url =
                       client.baseUrl \o req[c].path \o (IF q = "" THEN "" ELSE "?" \o q)
                /\ (/\ client.baseUrl = "https://api.example/v1"
                    /\ req[c].path = "/domains"
                    /\ req[c].options.params = DomainListParams)
                       => req[c].url = "https://api.example/v1/domains?verified=true"

\* DomainsApi.list({verified: true}) has been sent.
C7_Witness ==
    \E c \in Calls :
        /\ req[c].fetched
        /\ req[c].options.params = DomainListParams
        /\ req[c].url = "https://api.example/v1/domains?verified=true"

\* Everything call c owns.
CallState(c) ==
    <<pc[c], req[c], timerArmed[c], aborted[c], resp[c], outcome[c], sends[c],
      jsonTried[c], fired[c], caught[c]>>

\* The outcome of call c had it run alone with the same arguments, the same
\* timer expiry, the same transport failure or the same response.
AloneOutcome(c) ==
    LET u == BuildUrl(client, req[c].path, req[c].options)
        b == BuildBody(req[c].options)
    IN  IF ~u.ok THEN Threw(u.error)
        ELSE IF ~b.ok THEN Threw(CatchHandler(b.error))
        ELSE IF fired[c]
        THEN Threw(DataHordersCDNError("Request timeout", "TIMEOUT", 0, Undef))
        ELSE IF resp[c] = NoResp
        THEN Threw(DataHordersCDNError(caught[c].message, "NETWORK_ERROR", 0, Undef))
        ELSE IF req[c].options.responseType = "blob"
        THEN IF ResponseOk(resp[c].status)
             THEN AfterBlob(resp[c].status, resp[c].body, resp[c].read = "ok")
             ELSE Threw(CatchHandler(
                      TryText(resp[c].status, resp[c].body, resp[c].read = "ok").error))
        ELSE LET r == TryJson(resp[c].status, resp[c].body, resp[c].read = "ok")
             IN  IF r.threw THEN Threw(CatchHandler(r.error)) ELSE Returned(r.value)

\* A step changes what at most one call owns.
OneCallPerStep ==
    \E c \in Calls : \A d \in Calls \ {c} : CallState(d)' = CallState(d)

\* C10: calls on one engine are independent: every step touches the timer,
\* signal, headers and result of one call only, so a call's timeout aborts
\* that call alone; a settled call has the outcome it would have had alone;
\* its signal is aborted only by its own timer; and no step changes the
\* engine's base URL, credential, timeout or default headers.
C10_CallsAreIndependent ==
    /\ [](\A c \in Calls :
            /\ aborted[c] => fired[c]
            /\ req[c].fetched => req[c].headers = BuildHeaders(client, req[c].options)
            /\ pc[c] = "done" => outcome[c] = AloneOutcome(c))
    /\ [][OneCallPerStep /\ client' = client]_vars

\* One call has timed out while another, whose own timer never fired, has
\* returned a value.
C10_Witness ==
    \E c, d \in Calls :
        /\ c # d
        /\ fired[c] /\ pc[c] = "done" /\ outcome[c].error.code = "TIMEOUT"
        /\ ~fired[d] /\ ~aborted[d] /\ outcome[d].kind = "returned"

\* C11: an invocation of an engine operation sends at most one transport
\* request: the count of requests sent for a call is 1 exactly when its fetch
\* was issued, it only ever goes from 0 to 1, at the call's start, and no
\* failure (API error, timeout, network failure, decode failure) sends again.
C11_AtMostOneRequestPerCall ==
    /\ [](\A c \in Calls :
            /\ sends[c] <= 1
            /\ sends[c] = 1 <=> req[c].fetched
            /\ (pc[c] = "done" /\ outcome[c].kind = "threw") => sends[c] <= 1)
    /\ [][\A c \in Calls :
            sends[c]' # sends[c] => pc[c] = "idle" /\ sends[c] = 0 /\ sends[c]' = 1]_vars

\* A call whose transport failed has raised NETWORK_ERROR after one request.
C11_Witness ==
    \E c \in Calls :
        /\ pc[c] = "done"
        /\ resp[c] = NoResp
        /\ outcome[c].kind = "threw"
        /\ IsUniform(outcome[c].error)
        /\ outcome[c].error.code = "NETWORK_ERROR"
        /\ sends[c] = 1

\* C12: on the JSON path, when a response was received whose status is not
\* 2xx or whose envelope has success: false, the call raises a
\* DataHordersCDNError whose status is the response's HTTP status, whatever
\* the body; an error of status 0 means no response was received.
C12_ErrorCarriesHttpStatus ==
    \A c \in Calls :
        (req[c].op \in JsonOps /\ pc[c] = "done" /\ resp[c].read = "ok") =>
            /\ (\/ ~ResponseOk(resp[c].status)
                \/ /\ resp[c].body.json.ok
                   /\ Decoded(c).t = "object"
                   /\ Decoded(c).success = Bool(FALSE)) =>
                   /\ outcome[c].kind = "threw"
                   /\ IsUniform(outcome[c].error)
                   /\ outcome[c].error.status = resp[c].status
            /\ (outcome[c].kind = "threw" /\ IsUniform(outcome[c].error)) =>
                   outcome[c].error.status # 0

\* C13: a call's timer is armed exactly while its fetch is pending and its
\* timeout has not elapsed: it is cleared when the fetch settles, before the
\* body is read, no settled call has a timer armed, and a timer never fires
\* once a response was received.
C13_TimerArmedOnlyWhilePending ==
    \A c \in Calls :
        /\ timerArmed[c] <=> (pc[c] = "fetching" /\ ~fired[c])
        /\ resp[c] # NoResp => ~timerArmed[c] /\ ~fired[c]
        /\ pc[c] = "done" => ~timerArmed[c]

\* A response has arrived, its body is still being read, and the timer is
\* already cleared without having fired.
C13_Witness ==
    \E c \in Calls :
        /\ pc[c] \in {"readJson", "readText", "readBlob"}
        /\ resp[c].read = "pending"
        /\ ~timerArmed[c]
        /\ ~fired[c]

\* The body of call c, received whole, is no JSON envelope: it does not parse,
\* or parses to null, or to an object with neither success: true nor an error.
Undecodable(c) ==
    /\ resp[c].read = "ok"
    /\ \/ ~resp[c].body.json.ok
       \/ Decoded(c).t = "null"
       \/ /\ Decoded(c).t = "object"
          /\ Decoded(c).success # Bool(TRUE)
          /\ Decoded(c).error = Undef

\* C14: a 2xx response on the JSON path whose body is no JSON envelope raises
\* a DataHordersCDNError with code UNKNOWN_ERROR, never NETWORK_ERROR or TIMEOUT.
C14_UndecodableBodyIsUnknownError ==
    \A c \in Calls :
        (/\ req[c].op \in JsonOps
         /\ pc[c] = "done"
         /\ ResponseOk(resp[c].status)
         /\ Undecodable(c)) =>
            /\ outcome[c].kind = "threw"
            /\ IsUniform(outcome[c].error)
            /\ outcome[c].error.code = "UNKNOWN_ERROR"

\* C15: a post, put or patch given a body other than undefined, falsy values
\* included, is sent with that value JSON-serialized as its body and with
\* Content-Type: application/json; a call given no body is sent without a
\* body and with the credential and default headers only.
C15_BodySentWheneverSupplied ==
    \A c \in Calls :
        req[c].fetched =>
            IF req[c].options.body # Undef
            THEN /\ req[c].hasBody
                 /\ req[c].bodyText = JsonStringify(req[c].options.body).text
                 /\ "Content-Type" \in DOMAIN req[c].headers
                 /\ req[c].headers["Content-Type"] = "application/json"
            ELSE /\ ~req[c].hasBody
                 /\ req[c].headers = BaseHeaders(client)

----------------------------------------------------------------------------
(* Properties of waitForActive.                                            *)

NonTerminal(status) == status \notin {"active", "failed", "error"}

AllNonTerminal(observed) == \A i \in 1 .. Len(observed) : NonTerminal(observed[i])

Elapsed == wfa.now - wfa.startTime

WfaRaised(code) ==
    /\ wfa.outcome.kind = "threw"
    /\ IsUniform(wfa.outcome.error)
    /\ wfa.outcome.error.code = code

WfaOutcomeFollowsStatuses ==
    LET obs == wfa.observed
        n == Len(obs)
    IN  /\ wfa.checks \in {n, n + 1}
        /\ AllNonTerminal(SubSeq(obs, 1, n - 1))
        /\ wfa.pc \in {"checking", "delay"} => AllNonTerminal(obs)
        /\ wfa.pc = "checking" => wfa.checks = n + 1
        /\ wfa.pc = "done" =>
               IF wfa.checks = n + 1
               THEN \* the last status check gave no status
                    /\ wfa.outcome.kind = "threw"
                    /\ ~WfaRaised("CERTIFICATE_FAILED")
                    /\ wfa.outcome.error.message
                           # "Timeout waiting for certificate to become active"
               ELSE IF n > 0 /\ obs[n] = "active"
               THEN /\ wfa.outcome.kind = "returned"
                    /\ wfa.outcome.value.status = "active"
               ELSE IF n > 0 /\ obs[n] \in {"failed", "error"}
               THEN WfaRaised("CERTIFICATE_FAILED")
               ELSE /\ WfaRaised("TIMEOUT")
                    /\ wfa.outcome.error.message
                           = "Timeout waiting for certificate to become active"
                    /\ Elapsed >= wfa.timeout

PendingThenActive(observed) ==
    /\ Len(observed) >= 1
    /\ observed[Len(observed)] = "active"
    /\ \A i \in 1 .. Len(observed) - 1 : observed[i] = "pending"

\* C16: waitForActive checks the status strictly in sequence, its deadline
\* counted from its own start: a status request is in flight only during a
\* check and at most one at a time; a check begins before the deadline, after
\* the check before it has completed and a delay of at least the poll interval
\* has passed; and having observed pending n times and then active, it has
\* returned that status after exactly n + 1 checks and n delays.
C16_SequentialPollingCountsDelays ==
    LET n == Len(wfa.observed)
    IN  /\ sends[1] <= 1
        /\ pc[1] # "idle" => wfa.pc = "checking"
        /\ wfa.checks - n \in {0, 1}
        /\ wfa.pc \in {"checking", "delay"} => wfa.delays = wfa.checks - 1
        /\ wfa.pc = "checking" =>
               /\ wfa.checks = n + 1
               /\ wfa.checkStart - wfa.startTime < wfa.timeout
               /\ wfa.checks > 1 =>
                      wfa.checkStart - wfa.lastDone >= wfa.pollInterval
        /\ wfa.pc = "delay" => wfa.checks = n
        /\ PendingThenActive(wfa.observed) =>
               /\ wfa.pc = "done"
               /\ wfa.outcome = Returned(AcmeStatus("active", Undef))
               /\ wfa.checks = n
               /\ wfa.delays = n - 1

\* pending, pending, active: returned after three checks and two delays.
C16_Witness ==
    /\ wfa.pc = "done"
    /\ wfa.observed = <<"pending", "pending", "active">>
    /\ wfa.outcome.kind = "returned"
    /\ wfa.checks = 3
    /\ wfa.delays = 2

====
